---- MODULE Spec2Model ----
(***************************************************************************)
(* Model of the FX monitor: the ATR back-test loop of app.py               *)
(* (run_advanced_backtest and the code that displays its result), the     *)
(* pair canonicalisation get_proper_symbol, and the two currency-strength *)
(* aggregation loops (app.py get_strength_data, currency_SW_check.py      *)
(* get_currency_strength).                                                 *)
(*                                                                         *)
(* Prices are integers (a fixed-point scale of the floats of the code).   *)
(* The rows of df that survive dropna() are an input: row 0 is drawn when  *)
(* the function starts and row i when the loop reaches it; the loop only  *)
(* ever reads rows i and i-1, so the model keeps row i-1 in `prev`.        *)
(***************************************************************************)
EXTENDS Integers, Sequences, FiniteSets

\* ------------------------------------------------------------------ bounds
\* The largest number of rows that survive dropna().
MaxBars == 6
\* The largest number of non-empty price histories in one strength run.
MaxObs == 2

\* ------------------------------------------------------- program constants
MA_S_WINDOW == 10
MA_M_WINDOW == 25
MA_L_WINDOW == 50
ATR_PERIOD == 14
\* range(1, len(df)): the first index of the loop.
StartIndex_from0 == 1 - 1
StartIndex == 1

PRIORITY == <<"EUR", "GBP", "AUD", "NZD", "USD", "CAD", "CHF", "JPY">>
CURRENCIES == <<"USD", "EUR", "JPY", "GBP", "AUD", "CAD", "CHF", "NZD">>
CurrencySet == {CURRENCIES[k] : k \in 1..Len(CURRENCIES)}

\* ------------------------------------------------------------ input domains
\* (MA_S, MA_M, MA_L) of a row: ordered, broken at the second comparison,
\* broken at the first comparison.
MATriples == {<<3, 2, 1>>, <<3, 2, 2>>, <<2, 3, 1>>}
Closes == {10, 12}
ATRs == {1, 2}
Spreads == {0, 2}
RiskRewards == {1, 2}
\* A row of df after dropna(): every column is a number.
Bars ==
    { [MA_S |-> m[1], MA_M |-> m[2], MA_L |-> m[3], Close |-> c,
       High |-> c + up, Low |-> c - dn, ATR |-> a] :
        m \in MATriples, c \in Closes, up \in Spreads, dn \in Spreads, a \in ATRs }
NoBar == [MA_S |-> 0, MA_M |-> 0, MA_L |-> 0, Close |-> 0, High |-> 0, Low |-> 0, ATR |-> 0]
MaxRaw == MA_L_WINDOW - 1 + MaxBars

VARIABLES
    \* --- the back-test (app.py lines 46-86 and 113-146)
    pc,            \* "main" | "loop" | "returned" | "shown"
    rawLen,        \* len(df) as downloaded
    n,             \* len(df) after dropna()
    risk_reward,
    i,             \* the loop index
    prev,          \* df.iloc[i-1]
    in_position, entry_price, tp_price, sl_price, balance, history,
    bt_history,    \* the value returned to the caller
    shown,         \* what the caller displays: "none" | "error" | "chart" | "info"
    \* --- trace of the back-test (what the last iteration did, and counts)
    branch,        \* "none" | "entry" | "skip" | "tp" | "sl" | "hold"
    opens,         \* number of entry events so far
    evaluated,     \* indices of the rows the loop body ran on
    nForm,         \* rows i >= 1 on which perfect order formed (capped at 2)
    fEntry, fTP, fSL,   \* close and levels of the first formation row
    slSeen,        \* a row after the first formation had Low <= fSL
    tpClean,       \* a row after it had High >= fTP with no Low <= fSL up to it
    \* --- get_proper_symbol
    ppc, c1, c2, r12, r21,
    \* --- strength aggregation
    spc, fn, p, strengths, nObs, lastObs, touched, result

btVars == <<pc, rawLen, n, risk_reward, i, prev, in_position, entry_price, tp_price,
            sl_price, balance, history, bt_history, shown>>
trVars == <<branch, opens, evaluated, nForm, fEntry, fTP, fSL, slSeen, tpClean>>
pairVars == <<ppc, c1, c2, r12, r21>>
strVars == <<spc, fn, p, strengths, nObs, lastObs, touched, result>>
vars == <<btVars, trVars, pairVars, strVars>>

\* ------------------------------------------------------------ the back-test
\* rolling(window).mean() leaves the first window-1 rows NaN; dropna() drops
\* every row with a NaN. The long window decides how many rows are left.
Max2(a, b) == IF a >= b THEN a ELSE b
WarmUp == Max2(Max2(MA_S_WINDOW, MA_M_WINDOW), Max2(MA_L_WINDOW, ATR_PERIOD)) - 1
DropnaLen(len) == IF len > WarmUp THEN len - WarmUp ELSE 0

\* curr['MA_S'] > curr['MA_M'] > curr['MA_L']
IsPerfect_firstOnly(b) == b.MA_S > b.MA_M
IsPerfect(b) == b.MA_S > b.MA_M /\ b.MA_M > b.MA_L

\* is_perfect and was_not_perfect
EntrySignal_level(curr, pr) == IsPerfect(curr)
EntrySignal(curr, pr) == IsPerfect(curr) /\ ~IsPerfect(pr)

\* The engine's local variables as one record.
Engine == [in_position |-> in_position, entry_price |-> entry_price,
           tp_price |-> tp_price, sl_price |-> sl_price,
           balance |-> balance, history |-> history,
           branch |-> branch, opens |-> opens]

\* lines 71-75
Enter(st, curr, rr) ==
    [st EXCEPT !.in_position = TRUE, !.entry_price = curr.Close,
               !.tp_price = curr.Close + curr.ATR * rr,
               !.sl_price = curr.Close - curr.ATR * 1,
               !.branch = "entry", !.opens = @ + 1]

\* lines 79-81 and 83-85: balance += (price - entry_price); append; flat
CloseAt_appendDelta(st, price, how) ==
    [st EXCEPT !.balance = @ + (price - st.entry_price),
               !.history = Append(@, price - st.entry_price),
               !.in_position = FALSE, !.branch = how]
CloseAt(st, price, how) ==
    [st EXCEPT !.balance = @ + (price - st.entry_price),
               !.history = Append(@, st.balance + (price - st.entry_price)),
               !.in_position = FALSE, !.branch = how]

\* lines 78-85
ExitCheck_slFirst(st, curr) ==
    IF curr.Low <= st.sl_price THEN CloseAt(st, st.sl_price, "sl")
    ELSE IF curr.High >= st.tp_price THEN CloseAt(st, st.tp_price, "tp")
    ELSE [st EXCEPT !.branch = "hold"]
ExitCheck(st, curr) ==
    IF curr.High >= st.tp_price THEN CloseAt(st, st.tp_price, "tp")
    ELSE IF curr.Low <= st.sl_price THEN CloseAt(st, st.sl_price, "sl")
    ELSE [st EXCEPT !.branch = "hold"]

\* lines 65-70
EntryCheck(st, curr, pr, rr) ==
    IF EntrySignal(curr, pr) THEN Enter(st, curr, rr) ELSE [st EXCEPT !.branch = "skip"]

\* lines 65-85: one iteration of the loop
LoopBody_noFlatGuard(st, curr, pr, rr) ==
    IF EntrySignal(curr, pr) THEN Enter(st, curr, rr)
    ELSE IF st.in_position THEN ExitCheck(st, curr)
    ELSE [st EXCEPT !.branch = "skip"]
LoopBody_exitSameBar(st, curr, pr, rr) ==
    LET a == IF ~st.in_position THEN EntryCheck(st, curr, pr, rr) ELSE st
    IN  IF a.in_position THEN ExitCheck(a, curr) ELSE a
LoopBody(st, curr, pr, rr) ==
    IF ~st.in_position THEN EntryCheck(st, curr, pr, rr) ELSE ExitCheck(st, curr)

\* The observers of the input series: rows on which perfect order formed,
\* and whether take-profit was reached before stop-loss after the first one.
Observe(curr) ==
    LET forms == (curr.MA_S > curr.MA_M /\ curr.MA_M > curr.MA_L)
                 /\ ~(prev.MA_S > prev.MA_M /\ prev.MA_M > prev.MA_L)
        first == forms /\ nForm = 0
        sl2   == slSeen \/ (nForm >= 1 /\ curr.Low <= fSL)
    IN  /\ nForm' = IF forms /\ nForm < 2 THEN nForm + 1 ELSE nForm
        /\ fEntry' = IF first THEN curr.Close ELSE fEntry
        /\ fTP' = IF first THEN curr.Close + curr.ATR * risk_reward ELSE fTP
        /\ fSL' = IF first THEN curr.Close - curr.ATR ELSE fSL
        /\ slSeen' = sl2
        /\ tpClean' = (tpClean \/ (nForm >= 1 /\ curr.High >= fTP /\ ~sl2))

BtInit ==
    /\ pc = "main"
    /\ rawLen \in 0..MaxRaw
    /\ risk_reward \in RiskRewards
    /\ n = 0 /\ i = 0 /\ prev = NoBar
    /\ in_position = FALSE /\ entry_price = 0 /\ tp_price = 0 /\ sl_price = 0
    /\ balance = 0 /\ history = <<>> /\ bt_history = <<>> /\ shown = "none"
    /\ branch = "none" /\ opens = 0 /\ evaluated = {}
    /\ nForm = 0 /\ fEntry = 0 /\ fTP = 0 /\ fSL = 0
    /\ slSeen = FALSE /\ tpClean = FALSE

\* line 113: an empty download is reported and the back-test is not run.
ShowNoData ==
    /\ pc = "main" /\ rawLen = 0
    /\ shown' = "error" /\ pc' = "shown"
    /\ UNCHANGED <<rawLen, n, risk_reward, i, prev, in_position, entry_price,
                   tp_price, sl_price, balance, history, bt_history>>
    /\ UNCHANGED <<trVars, pairVars, strVars>>

\* lines 139, 48-59: the call, the indicators, dropna() and the locals.
StartBacktest ==
    /\ pc = "main" /\ rawLen > 0
    /\ n' = DropnaLen(rawLen)
    /\ IF DropnaLen(rawLen) >= 1 THEN prev' \in Bars ELSE prev' = NoBar
    /\ i' = StartIndex
    /\ history' = <<>> /\ balance' = 0 /\ in_position' = FALSE
    /\ entry_price' = 0 /\ tp_price' = 0 /\ sl_price' = 0
    /\ pc' = "loop"
    /\ UNCHANGED <<rawLen, risk_reward, bt_history, shown>>
    /\ UNCHANGED <<trVars, pairVars, strVars>>

\* lines 61-85: one iteration, on row i.
Step ==
    /\ pc = "loop" /\ i < n
    /\ \E curr \in Bars :
         LET nx == LoopBody(Engine, curr, prev, risk_reward)
         IN  /\ in_position' = nx.in_position
             /\ entry_price' = nx.entry_price
             /\ tp_price' = nx.tp_price
             /\ sl_price' = nx.sl_price
             /\ balance' = nx.balance
             /\ history' = nx.history
             /\ branch' = nx.branch
             /\ opens' = nx.opens
             /\ Observe(curr)
             /\ prev' = curr
    /\ evaluated' = evaluated \cup {i}
    /\ i' = i + 1
    /\ UNCHANGED <<pc, rawLen, n, risk_reward, bt_history, shown>>
    /\ UNCHANGED <<pairVars, strVars>>

\* line 86: return history
Return ==
    /\ pc = "loop" /\ i >= n
    /\ bt_history' = history
    /\ pc' = "returned"
    /\ UNCHANGED <<rawLen, n, risk_reward, i, prev, in_position, entry_price,
                   tp_price, sl_price, balance, history, shown>>
    /\ UNCHANGED <<trVars, pairVars, strVars>>

\* lines 141-146: if bt_history: chart and metrics, else the "no entry" note.
ShowResult ==
    /\ pc = "returned"
    /\ shown' = IF bt_history # <<>> THEN "chart" ELSE "info"
    /\ pc' = "shown"
    /\ UNCHANGED <<rawLen, n, risk_reward, i, prev, in_position, entry_price,
                   tp_price, sl_price, balance, history, bt_history>>
    /\ UNCHANGED <<trVars, pairVars, strVars>>

BtIdle ==
    /\ pc = "idle" /\ rawLen = 0 /\ risk_reward = 0
    /\ n = 0 /\ i = 0 /\ prev = NoBar
    /\ in_position = FALSE /\ entry_price = 0 /\ tp_price = 0 /\ sl_price = 0
    /\ balance = 0 /\ history = <<>> /\ bt_history = <<>> /\ shown = "none"
    /\ branch = "none" /\ opens = 0 /\ evaluated = {}
    /\ nForm = 0 /\ fEntry = 0 /\ fTP = 0 /\ fSL = 0
    /\ slSeen = FALSE /\ tpClean = FALSE

\* -------------------------------------------------------- get_proper_symbol
\* list.index(x): the first position holding x.
IndexIn(seq, c) == CHOOSE k \in 1..Len(seq) : seq[k] = c /\ \A j \in 1..(k - 1) : seq[j] # c
PriorityIndex_currencies(c) == IndexIn(CURRENCIES, c)
PriorityIndex(c) == IndexIn(PRIORITY, c)

\* f"{c1}{c2}=X" is the three parts in order; the codes all have three letters.
Symbol(a, b) == <<a, b, "=X">>

get_proper_symbol_noSwap(a, b) ==
    [symbol |-> Symbol(a, b), inverted |-> ~(PriorityIndex(a) < PriorityIndex(b))]
get_proper_symbol(a, b) ==
    IF PriorityIndex(a) < PriorityIndex(b)
    THEN [symbol |-> Symbol(a, b), inverted |-> FALSE]
    ELSE [symbol |-> Symbol(b, a), inverted |-> TRUE]

NoResult == [symbol |-> <<>>, inverted |-> FALSE]
PairIdle == ppc = "idle" /\ c1 = "USD" /\ c2 = "USD" /\ r12 = NoResult /\ r21 = NoResult
PairInit ==
    /\ ppc = "call12" /\ c1 \in CurrencySet /\ c2 \in CurrencySet
    /\ r12 = NoResult /\ r21 = NoResult

CallProper12 ==
    /\ ppc = "call12"
    /\ r12' = get_proper_symbol(c1, c2)
    /\ ppc' = "call21"
    /\ UNCHANGED <<c1, c2, r21, btVars, trVars, strVars>>

CallProper21 ==
    /\ ppc = "call21"
    /\ r21' = get_proper_symbol(c2, c1)
    /\ ppc' = "done"
    /\ UNCHANGED <<c1, c2, r12, btVars, trVars, strVars>>

\* ------------------------------------------------------ strength aggregation
Returns == {-1, 2}
\* app.py line 32-33: every currency but USD, against USD.
RECURSIVE AppPairsFrom(_)
AppPairsFrom(k) ==
    IF k > Len(CURRENCIES) THEN <<>>
    ELSE (IF CURRENCIES[k] # "USD" THEN << <<CURRENCIES[k], "USD">> >> ELSE <<>>)
         \o AppPairsFrom(k + 1)
AppPairs == AppPairsFrom(1)
\* currency_SW_check.py lines 15-17: base outer, quote inner, base # quote.
RECURSIVE ScriptPairsFrom(_, _)
ScriptPairsFrom(b, q) ==
    IF b > Len(CURRENCIES) THEN <<>>
    ELSE IF q > Len(CURRENCIES) THEN ScriptPairsFrom(b + 1, 1)
    ELSE (IF b # q THEN << <<CURRENCIES[b], CURRENCIES[q]>> >> ELSE <<>>)
         \o ScriptPairsFrom(b, q + 1)
ScriptPairs == ScriptPairsFrom(1, 1)
PairsOf(f) == IF f = "app" THEN AppPairs ELSE ScriptPairs

\* strengths = {c: 0.0 for c in CURRENCIES}
ZeroStrengths == [c \in CurrencySet |-> 0]

\* strengths[base] += r ; strengths[quote] -= r
Aggregate_baseOnly(s, base, quote, r) == [s EXCEPT ![base] = @ + r]
Aggregate(s, base, quote, r) == [[s EXCEPT ![base] = @ + r] EXCEPT ![quote] = @ - r]

\* pd.Series(strengths).sort_values(ascending=False): the entries of the
\* mapping in descending order of score (insertion keeps equal scores in
\* the order of CURRENCIES).
RECURSIVE InsertDesc(_, _)
InsertDesc(seq, e) ==
    IF seq = <<>> THEN <<e>>
    ELSE IF Head(seq).score >= e.score THEN <<Head(seq)>> \o InsertDesc(Tail(seq), e)
    ELSE <<e>> \o seq
RECURSIVE SortedFrom(_, _)
SortedFrom(s, k) ==
    IF k = 0 THEN <<>>
    ELSE InsertDesc(SortedFrom(s, k - 1), [currency |-> CURRENCIES[k], score |-> s[CURRENCIES[k]]])
SortValues(s) == SortedFrom(s, Len(CURRENCIES))

StrIdle ==
    /\ spc = "idle" /\ fn = "none" /\ p = 0 /\ nObs = 0 /\ lastObs = <<>>
    /\ touched = {} /\ strengths = ZeroStrengths /\ result = <<>>
StrInit ==
    /\ spc = "start" /\ fn \in {"app", "script"} /\ p = 0 /\ nObs = 0 /\ lastObs = <<>>
    /\ touched = {} /\ strengths = ZeroStrengths /\ result = <<>>

\* app.py line 35: if raw_data.empty: return pd.Series()
AppEmpty ==
    /\ spc = "start" /\ fn = "app"
    /\ result' = <<>>
    /\ spc' = "done"
    /\ UNCHANGED <<fn, p, strengths, nObs, lastObs, touched, btVars, trVars, pairVars>>

\* app.py line 38, currency_SW_check.py line 13
StrengthStart ==
    /\ spc = "start"
    /\ strengths' = ZeroStrengths
    /\ p' = 1
    /\ spc' = "loop"
    /\ UNCHANGED <<fn, nObs, lastObs, touched, result, btVars, trVars, pairVars>>

\* app.py lines 39-42: one column of returns.
AppStep ==
    /\ spc = "loop" /\ fn = "app" /\ p <= Len(AppPairs)
    /\ \E r \in Returns :
         LET base == AppPairs[p][1]
         IN  /\ strengths' = Aggregate(strengths, base, "USD", r)
             /\ lastObs' = <<base, "USD", r>>
             /\ touched' = touched \cup {base, "USD"}
    /\ nObs' = nObs + 1
    /\ p' = p + 1
    /\ UNCHANGED <<spc, fn, result, btVars, trVars, pairVars>>

\* currency_SW_check.py lines 18-26: one pair with a non-empty history.
ScriptStep ==
    /\ spc = "loop" /\ fn = "script" /\ p <= Len(ScriptPairs)
    /\ nObs < MaxObs
    /\ \E change \in Returns :
         LET base == ScriptPairs[p][1]
             quote == ScriptPairs[p][2]
         IN  /\ strengths' = Aggregate(strengths, base, quote, change)
             /\ lastObs' = <<base, quote, change>>
             /\ touched' = touched \cup {base, quote}
    /\ nObs' = nObs + 1
    /\ p' = p + 1
    /\ UNCHANGED <<spc, fn, result, btVars, trVars, pairVars>>

\* currency_SW_check.py lines 23, 27-28: an empty history or a failed fetch.
ScriptSkip ==
    /\ spc = "loop" /\ fn = "script" /\ p <= Len(ScriptPairs)
    /\ lastObs' = <<>>
    /\ p' = p + 1
    /\ UNCHANGED <<spc, fn, strengths, nObs, touched, result, btVars, trVars, pairVars>>

\* app.py line 43, currency_SW_check.py line 30
StrengthReturn ==
    /\ spc = "loop" /\ p > Len(PairsOf(fn))
    /\ result' = SortValues(strengths)
    /\ spc' = "done"
    /\ UNCHANGED <<fn, p, strengths, nObs, lastObs, touched, btVars, trVars, pairVars>>

\* ------------------------------------------------------------ specifications
Init == BtInit /\ PairIdle /\ StrIdle
Next == ShowNoData \/ StartBacktest \/ Step \/ Return \/ ShowResult
Spec == Init /\ [][Next]_vars

PairSpecInit == BtIdle /\ PairInit /\ StrIdle
PairNext == CallProper12 \/ CallProper21
SpecPair == PairSpecInit /\ [][PairNext]_vars

StrengthSpecInit == BtIdle /\ PairIdle /\ StrInit
StrengthNext == AppEmpty \/ StrengthStart \/ AppStep \/ ScriptStep \/ ScriptSkip \/ StrengthReturn
SpecStrength == StrengthSpecInit /\ [][StrengthNext]_vars

\* ------------------------------------------------------------------ claims
\* Perfect order as the specification states it: short > medium > long.
PerfectOrder(b) == b.MA_S > b.MA_M /\ b.MA_M > b.MA_L
LastOrZero(seq) == IF seq = <<>> THEN 0 ELSE seq[Len(seq)]
\* One iteration of the back-test loop has run between the two states.
BarProcessed == pc = "loop" /\ i' = i + 1
Finished == pc \in {"returned", "shown"}

\* C1: at most one position is open after every bar: the number of entry
\* events exceeds the number of closes by one exactly while a position is
\* open and never by more, and an entry event happens only on a bar
\* processed while the engine is flat.
C1_Balance == (opens - Len(history)) = (IF in_position THEN 1 ELSE 0)
C1_EntryOnlyWhenFlat == (opens' # opens) => (~in_position /\ in_position' /\ opens' = opens + 1)
C1_OnePosition == []C1_Balance /\ [][C1_EntryOnlyWhenFlat]_vars
\* A second position, opened after the first one was closed.
C1_Witness == opens = 2 /\ in_position /\ Len(history) = 1 /\ branch = "entry"

\* C2: on a bar processed while flat a position is opened if and only if
\* perfect order holds on that bar and did not hold on the bar before it,
\* and the entry price is that bar's close; nothing is opened before the
\* loop runs.
C2_Edge ==
    /\ (BarProcessed /\ ~in_position) =>
          /\ (opens' = opens + 1 /\ in_position') <=> (PerfectOrder(prev') /\ ~PerfectOrder(prev))
          /\ in_position' => entry_price' = prev'.Close
          /\ ~in_position' => opens' = opens
    /\ pc = "main" => (~in_position' /\ opens' = opens)
C2_EdgeTriggered == [][C2_Edge]_vars
\* A re-entry: the second position, taken on a bar where the order re-formed.
C2_Witness ==
    /\ opens = 2 /\ branch = "entry" /\ in_position
    /\ PerfectOrder(prev) /\ entry_price = prev.Close

\* C3: the levels are set on the entry bar from its close and ATR; while a
\* position is open a bar with High >= take_profit closes it with
\* take_profit - entry_price (also when Low <= stop_loss), otherwise a bar
\* with Low <= stop_loss closes it with stop_loss - entry_price, otherwise
\* the position stays open with its three prices unchanged.
C3_Levels ==
    (BarProcessed /\ opens' = opens + 1) =>
        /\ entry_price' = prev'.Close
        /\ tp_price' = prev'.Close + prev'.ATR * risk_reward
        /\ sl_price' = prev'.Close - prev'.ATR
C3_Exit ==
    (BarProcessed /\ in_position) =>
        IF prev'.High >= tp_price
        THEN /\ ~in_position' /\ branch' = "tp"
             /\ balance' - balance = tp_price - entry_price
             /\ history' = Append(history, LastOrZero(history) + (tp_price - entry_price))
        ELSE IF prev'.Low <= sl_price
        THEN /\ ~in_position' /\ branch' = "sl"
             /\ balance' - balance = sl_price - entry_price
             /\ history' = Append(history, LastOrZero(history) + (sl_price - entry_price))
        ELSE /\ in_position' /\ branch' = "hold"
             /\ balance' = balance /\ history' = history
             /\ <<entry_price, tp_price, sl_price>>' = <<entry_price, tp_price, sl_price>>
C3_TpThenSl == [][C3_Levels /\ C3_Exit]_vars
\* A bar that touched both levels closed the trade at take-profit.
C3_Witness ==
    /\ branch = "tp" /\ ~in_position
    /\ prev.High >= tp_price /\ prev.Low <= sl_price
    /\ LastOrZero(history) = tp_price - entry_price

\* C4: the returned list has one element per close, in order; each new
\* element is the previous one (0 for the first) plus the realized P&L of
\* the trade just closed; elements are never changed; the list is empty
\* before any close; returning does not close an open position.
C4_Realized == IF prev'.High >= tp_price THEN tp_price - entry_price ELSE sl_price - entry_price
C4_Append ==
    /\ BarProcessed =>
          IF in_position /\ ~in_position'
          THEN history' = Append(history, LastOrZero(history) + C4_Realized)
          ELSE history' = history
    /\ (pc = "loop" /\ pc' = "returned") =>
          (bt_history' = history /\ history' = history /\ in_position' = in_position)
    /\ pc = "returned" => bt_history' = bt_history
C4_State ==
    /\ balance = LastOrZero(history)
    /\ Len(history) = opens - (IF in_position THEN 1 ELSE 0)
    /\ Finished => bt_history = history
    /\ opens = 0 => history = <<>>
C4_Ledger == []C4_State /\ [][C4_Append]_vars
\* Two closed trades, a gain and then a loss, shown as cumulative balances.
C4_Witness ==
    /\ pc = "shown" /\ Len(bt_history) = 2
    /\ bt_history[1] > 0 /\ bt_history[2] < bt_history[1]

\* C5: when perfect order forms on exactly one processed bar and holds to
\* the end, and after that bar some bar reaches take_profit with no bar up
\* to it touching stop_loss, the returned ledger is the single value
\* take_profit - entry_price.
C5_Premise == Finished /\ nForm = 1 /\ PerfectOrder(prev) /\ tpClean
C5_SingleTpTrade == C5_Premise => (bt_history = <<fTP - fEntry>> /\ opens = 1)
\* Such a run, with the order still holding on flat bars after the close.
C5_Witness == C5_Premise /\ pc = "shown" /\ branch = "skip" /\ Len(bt_history) = 1

\* C6 as stated: for ALL a and b the two calls give the same symbol with
\* opposite flags, lower priority index first, inverted false exactly when
\* the first argument has the lower index.
Rank(c) == CHOOSE k \in 1..Len(PRIORITY) : PRIORITY[k] = c
C6_Relation ==
    /\ r12.symbol = r21.symbol
    /\ r12.inverted # r21.inverted
    /\ r12.symbol = (IF Rank(c1) < Rank(c2) THEN <<c1, c2, "=X">> ELSE <<c2, c1, "=X">>)
C6_Flags ==
    /\ r12.inverted = FALSE <=> Rank(c1) < Rank(c2)
    /\ r21.inverted = FALSE <=> Rank(c2) < Rank(c1)
C6_AllPairs == ppc = "done" => (C6_Relation /\ C6_Flags)
\* C6 amended: the relation holds for all DISTINCT a and b; the flag rule
\* holds for all a and b.
C6_DistinctPairs == ppc = "done" => (C6_Flags /\ (c1 # c2 => C6_Relation))
C6_Witness ==
    /\ ppc = "done" /\ c1 = "JPY" /\ c2 = "EUR"
    /\ r12 = [symbol |-> <<"EUR", "JPY", "=X">>, inverted |-> TRUE]
    /\ r21 = [symbol |-> <<"EUR", "JPY", "=X">>, inverted |-> FALSE]

\* C7: every currency starts at 0; each observation adds its return to the
\* base and subtracts it from the quote and changes nothing else; a run
\* with at least one observation returns exactly one entry per currency,
\* 0 for a currency in no observation, and the entries sum to zero (the
\* positive ones equal minus the negative ones).
RECURSIVE SumScores(_, _)
SumScores(seq, sign) ==
    IF seq = <<>> THEN 0
    ELSE (IF Head(seq).score * sign > 0 THEN Head(seq).score ELSE 0) + SumScores(Tail(seq), sign)
C7_Final ==
    (spc = "done" /\ nObs >= 1) =>
        /\ Len(result) = Len(CURRENCIES)
        /\ \A c \in CurrencySet : Cardinality({k \in 1..Len(result) : result[k].currency = c}) = 1
        /\ \A k \in 1..Len(result) :
              (result[k].currency \notin touched) => result[k].score = 0
        /\ SumScores(result, 1) + SumScores(result, -1) = 0
        /\ SumScores(result, 1) = -SumScores(result, -1)
C7_Start == (spc = "loop" /\ p = 1) => \A c \in CurrencySet : strengths[c] = 0
C7_Add ==
    (spc = "loop" /\ p' = p + 1 /\ lastObs' # <<>>) =>
        \A c \in CurrencySet :
            strengths'[c] = strengths[c]
                            + (IF c = lastObs'[1] THEN lastObs'[3] ELSE 0)
                            - (IF c = lastObs'[2] THEN lastObs'[3] ELSE 0)
C7_ZeroSum == [](C7_Final /\ C7_Start) /\ [][C7_Add]_vars
\* A finished run with observations, a currency left at 0 and a gainer.
C7_Witness ==
    /\ spc = "done" /\ nObs >= 2 /\ touched # CurrencySet
    /\ \E k \in 1..Len(result) : result[k].score > 0
    /\ \E k \in 1..Len(result) : result[k].score < 0

\* C8 as stated: input shorter than the long window is reported as an
\* error, never as an ordinary result.
C8_InsufficientDataReported ==
    (pc = "shown" /\ rawLen < MA_L_WINDOW) => shown \notin {"chart", "info"}

\* C9: a bar causes at most one transition: a bar that closes a position
\* opens none, and a bar that opens a position is not tested for exit.
C9_Step ==
    BarProcessed =>
        /\ (opens' - opens) + (Len(history') - Len(history)) <= 1
        /\ Len(history') > Len(history) => (~in_position' /\ opens' = opens)
        /\ opens' > opens => (in_position' /\ history' = history /\ balance' = balance)
C9_OneTransitionPerBar == [][C9_Step]_vars
\* An entry bar whose own high already reaches the new take-profit.
C9_Witness == branch = "entry" /\ in_position /\ prev.High >= tp_price /\ opens = Len(history) + 1

\* C10 as stated: every row left by dropna, the first included, is
\* evaluated once.
C10_AllRowsEvaluated == Finished => evaluated = 0..(n - 1)
\* C10 amended: every row but the first is evaluated once, in time order;
\* the first row is only read as the previous bar of the second.
C10_Order == (evaluated' # evaluated) => (evaluated' = evaluated \cup {i} /\ \A k \in evaluated : k < i)
C10_Rows ==
    /\ 0 \notin evaluated
    /\ pc = "loop" => evaluated = 1..(i - 1)
    /\ Finished => evaluated = 1..(n - 1)
C10_AllButFirstRow == []C10_Rows /\ [][C10_Order]_vars
C10_Witness == Finished /\ n >= 3 /\ evaluated = 1..(n - 1) /\ opens >= 1
====
